---- MODULE Spec2Model ----
(***************************************************************************)
(* Dance Verify (src/src/index.js): the x402 payment gate, the receipt     *)
(* ledger and the four verification operations, as a state machine.        *)
(*                                                                         *)
(* JavaScript values are tagged records; a string is the sequence of its   *)
(* characters, so that toLowerCase and trim are computed, not assumed.     *)
(***************************************************************************)
EXTENDS Integers, Sequences, FiniteSets, TLC

(***************************************************************************)
(* Bounds of the model.                                                    *)
(***************************************************************************)
\* requests to a protected endpoint received in one behaviour; all of them
\* may be in flight at the same time
MaxReq == 2
\* Date.now() returns a time in 0..MaxTime
MaxTime == 1
\* a uuid is <<its first 16 hex digits, its last 16 hex digits>>, drawn from
\* (1..MaxHigh) \X (1..MaxLow)
MaxHigh == 2
MaxLow == 1

(***************************************************************************)
(* JavaScript values.                                                      *)
(***************************************************************************)
Undef == [t |-> "undef"]
Null == [t |-> "null"]
Str(chars) == [t |-> "str", v |-> chars]
Num(n) == [t |-> "num", n |-> n]
Bool(b) == [t |-> "bool", b |-> b]
Arr(elems) == [t |-> "arr", v |-> elems]

\* ToBoolean: what `!x`, `x || y`, `x && y` and `x ? a : b` look at
Truthy(x) ==
    CASE x.t = "undef" -> FALSE
      [] x.t = "null" -> FALSE
      [] x.t = "str" -> x.v # <<>>
      [] x.t = "num" -> x.n # 0
      [] x.t = "bool" -> x.b
      [] OTHER -> TRUE

\* x || d
OrElse(x, d) == IF Truthy(x) THEN x ELSE d

(***************************************************************************)
(* String.prototype.toLowerCase and trim, on ASCII.                        *)
(***************************************************************************)
UpperChars ==
    <<"A", "B", "C", "D", "E", "F", "G", "H", "I", "J", "K", "L", "M",
      "N", "O", "P", "Q", "R", "S", "T", "U", "V", "W", "X", "Y", "Z">>
LowerChars ==
    <<"a", "b", "c", "d", "e", "f", "g", "h", "i", "j", "k", "l", "m",
      "n", "o", "p", "q", "r", "s", "t", "u", "v", "w", "x", "y", "z">>
WhiteSpace == {" ", "\t", "\n"}

LowerOf ==
    [c \in {UpperChars[i] : i \in 1..Len(UpperChars)} |->
        LowerChars[CHOOSE i \in 1..Len(UpperChars) : UpperChars[i] = c]]

toLowerChar(c) == IF c \in DOMAIN LowerOf THEN LowerOf[c] ELSE c

toLowerCase(s) == [i \in 1..Len(s) |-> toLowerChar(s[i])]

RECURSIVE trimStart(_)
trimStart(s) ==
    IF s # <<>> /\ Head(s) \in WhiteSpace THEN trimStart(Tail(s)) ELSE s

RECURSIVE trimEnd(_)
trimEnd(s) ==
    IF s # <<>> /\ s[Len(s)] \in WhiteSpace
    THEN trimEnd(SubSeq(s, 1, Len(s) - 1))
    ELSE s

trim(s) == trimEnd(trimStart(s))

(***************************************************************************)
(* Configuration.                                                          *)
(***************************************************************************)
CHAIN_ID == 84532

Endpoints == {"verify/move", "verify/video", "verify/choreography", "verify/attribution"}

\* PRICES in USDC, as the exact decimal fractions num/den the literals denote
PRICES ==
    [e \in Endpoints |->
        CASE e = "verify/move" -> [num |-> 1, den |-> 1000]
          [] e = "verify/video" -> [num |-> 1, den |-> 100]
          [] e = "verify/choreography" -> [num |-> 5, den |-> 100]
          [] e = "verify/attribution" -> [num |-> 5, den |-> 1000]]

\* `${PRICES[endpoint]} USDC`
PriceText(e) ==
    CASE e = "verify/move" -> "0.001 USDC"
      [] e = "verify/video" -> "0.01 USDC"
      [] e = "verify/choreography" -> "0.05 USDC"
      [] e = "verify/attribution" -> "0.005 USDC"

DANCE_STYLES ==
    << <<"k","r","u","m","p">>,
       <<"b","r","e","a","k","i","n","g">>,
       <<"h","i","p","-","h","o","p">>,
       <<"p","o","p","p","i","n","g">>,
       <<"l","o","c","k","i","n","g">>,
       <<"h","o","u","s","e">>,
       <<"w","a","a","c","k","i","n","g">>,
       <<"a","f","r","o">>,
       <<"k","p","o","p">>,
       <<"b","a","l","l","e","t">>,
       <<"c","o","n","t","e","m","p","o","r","a","r","y">>,
       <<"j","a","z","z">>,
       <<"t","a","p">>,
       <<"s","a","l","s","a">>,
       <<"v","o","g","u","i","n","g">>,
       <<"d","a","n","c","e","h","a","l","l">>,
       <<"r","e","g","g","a","e","t","o","n">>,
       <<"t","w","e","r","k">>,
       <<"s","h","u","f","f","l","e">>,
       <<"o","t","h","e","r">> >>

StyleSet == {DANCE_STYLES[i] : i \in 1..Len(DANCE_STYLES)}

(***************************************************************************)
(* Map (receipts, payments): a function on the keys set so far.            *)
(***************************************************************************)
EmptyMap == [k \in {} |-> Null]
mapHas(m, k) == k \in DOMAIN m

\* a lookup that finds nothing
mapGetMiss(m, k) == Undef

mapGet(m, k) == IF k \in DOMAIN m THEN m[k] ELSE Undef
mapSet(m, k, x) == [j \in DOMAIN m \cup {k} |-> IF j = k THEN x ELSE m[j]]
mapSize(m) == Cardinality(DOMAIN m)

(***************************************************************************)
(* The x-402-payment request header.  kind is what the header text is:     *)
(*   absent   no such header (req.headers[...] is undefined)               *)
(*   empty    the empty string                                             *)
(*   garbage  text JSON.parse rejects                                      *)
(*   null     the text null                                                *)
(*   number   the text of a number                                         *)
(*   object   the text of an object with the properties txHash, signature  *)
(***************************************************************************)
Header(kind, txHash, signature) ==
    [kind |-> kind, txHash |-> txHash, signature |-> signature]

NoHeader == Header("absent", Undef, Undef)

\* !paymentHeader
HeaderFalsy(h) == h.kind \in {"absent", "empty"}

\* JSON.parse(paymentHeader) throws a SyntaxError
ParseThrows(h) == h.kind \in {"empty", "garbage"}

\* payment.txHash / payment.signature throws a TypeError (payment is null)
PropertyThrows(h) == h.kind = "null"

\* payment.txHash and payment.signature of the parsed header
txHashOf(h) == IF h.kind = "object" THEN h.txHash ELSE Undef
signatureOf(h) == IF h.kind = "object" THEN h.signature ELSE Undef

\* a replay check that sees every reference as unused
AlreadyUsedNever(pays, tx) == FALSE

\* payments.has(payment.txHash)
AlreadyUsed(pays, tx) == mapHas(pays, tx)

\* a gate that keeps only the newest reference
MarkUsedEvicts(pays, tx, time) ==
    IF Truthy(tx) THEN mapSet(EmptyMap, tx, [usedAt |-> time]) ELSE pays

\* a gate that records nothing
MarkUsedForgets(pays, tx, time) == pays

\* the payments map after the `Mark as used` statement
MarkUsed(pays, tx, time) ==
    IF Truthy(tx) THEN mapSet(pays, tx, [usedAt |-> time]) ELSE pays

\* `return false` before anything is recorded
returnFalse(pays) == [ok |-> FALSE, payments |-> pays]

\* a catch block that lets the request through
catchErrorFailOpen(pays) == [ok |-> TRUE, payments |-> pays]

\* the catch block of verifyPayment
catchError(pays) == [ok |-> FALSE, payments |-> pays]

\* a verifyPayment that marks the reference as used before the replay check
verifyPaymentMarksFirst(h, pays, time) ==
    IF HeaderFalsy(h) THEN returnFalse(pays)
    ELSE IF ParseThrows(h) \/ PropertyThrows(h) THEN catchError(pays)
    ELSE IF ~Truthy(txHashOf(h)) /\ ~Truthy(signatureOf(h)) THEN returnFalse(pays)
    ELSE IF Truthy(txHashOf(h)) /\ AlreadyUsed(pays, txHashOf(h))
         THEN returnFalse(MarkUsed(pays, txHashOf(h), time))
    ELSE [ok |-> TRUE, payments |-> MarkUsed(pays, txHashOf(h), time)]

\* verifyPayment: its result and the payments map it leaves
verifyPayment(h, pays, time) ==
    IF HeaderFalsy(h) THEN returnFalse(pays)
    ELSE IF ParseThrows(h) \/ PropertyThrows(h) THEN catchError(pays)
    ELSE IF ~Truthy(txHashOf(h)) /\ ~Truthy(signatureOf(h)) THEN returnFalse(pays)
    ELSE IF Truthy(txHashOf(h)) /\ AlreadyUsed(pays, txHashOf(h)) THEN returnFalse(pays)
    ELSE [ok |-> TRUE, payments |-> MarkUsed(pays, txHashOf(h), time)]

(***************************************************************************)
(* createPaymentRequired.                                                  *)
(***************************************************************************)
DigitChars == <<"0", "1", "2", "3", "4", "5", "6", "7", "8", "9">>

\* String(n) for a natural number n
RECURSIVE StringOfNat(_)
StringOfNat(n) ==
    IF n < 10 THEN <<DigitChars[n + 1]>>
    ELSE Append(StringOfNat(n \div 10), DigitChars[(n % 10) + 1])

\* 1e6
UsdcUnits == 1000000

\* the amount in hundredths instead of millionths
FloorUnitsCents(price) == (price.num * 100) \div price.den

\* Math.floor(price * 1e6)
FloorUnits(price) == (price.num * UsdcUnits) \div price.den

createPaymentRequired(endpoint) ==
    [scheme |-> "exact",
     network |-> "base-sepolia",
     chainId |-> CHAIN_ID,
     payee |-> "WALLET_ADDRESS",
     token |-> "USDC_ADDRESS",
     amount |-> Str(StringOfNat(FloorUnits(PRICES[endpoint]))),
     description |-> <<"Dance Verify: ", endpoint>>,
     resource |-> <<"/", endpoint>>,
     mimeType |-> "application/json"]

(***************************************************************************)
(* String literals of the source, as character sequences.                  *)
(***************************************************************************)
S_other == <<"o","t","h","e","r">>
S_krump == <<"k","r","u","m","p">>
S_unknown == <<"u","n","k","n","o","w","n">>
S_pending_analysis == <<"p","e","n","d","i","n","g","_","a","n","a","l","y","s","i","s">>
S_likely_accurate == <<"l","i","k","e","l","y","_","a","c","c","u","r","a","t","e">>
S_unverified == <<"u","n","v","e","r","i","f","i","e","d">>

(***************************************************************************)
(* validateStyle.                                                          *)
(***************************************************************************)
\* style?.toLowerCase is not a function: a TypeError
validateStyleThrows(style) == style.t \notin {"undef", "null", "str"}

\* a normalization that forgets to trim
normalizeStyleNoTrim(style) ==
    IF style.t = "str" THEN Str(toLowerCase(style.v)) ELSE Undef

\* style?.toLowerCase().trim()
normalizeStyle(style) ==
    IF style.t = "str" THEN Str(trim(toLowerCase(style.v))) ELSE Undef

\* a validator that returns the normalized text whether or not it is a style
validateStyleLenient(style) ==
    IF normalizeStyle(style).t = "str" THEN normalizeStyle(style) ELSE Null

\* DANCE_STYLES.includes(normalized) ? normalized : null
validateStyle(style) ==
    IF normalizeStyle(style).t = "str" /\ normalizeStyle(style).v \in StyleSet
    THEN normalizeStyle(style)
    ELSE Null

\* style ? validateStyle(style) : 'other'
resolveStyle(style) == IF Truthy(style) THEN validateStyle(style) ELSE Str(S_other)

(***************************************************************************)
(* req.body: the fields the four handlers destructure.                     *)
(***************************************************************************)
EmptyBody ==
    [style |-> Undef, move_name |-> Undef, claimed_creator |-> Undef,
     description |-> Undef, video_url |-> Undef, title |-> Undef,
     claimed_creators |-> Undef, choreographer |-> Undef, moves |-> Undef,
     duration_seconds |-> Undef, year |-> Undef, evidence_urls |-> Undef]

(***************************************************************************)
(* What a handler does with a request: the status and JSON body it sends,  *)
(* and the data it hands to generateReceipt (Null when it mints nothing).  *)
(* A handler that throws is answered by the framework's error handler.     *)
(***************************************************************************)
Send(status, json) == [status |-> status, json |-> json, data |-> Null]
Mint(data) == [status |-> 200, json |-> Null, data |-> data]
Throw == [status |-> 500, json |-> [error |-> "Internal Server Error"], data |-> Null]

\* POST /verify/move
verifyMove(body) ==
    IF ~Truthy(body.style) \/ ~Truthy(body.move_name)
    THEN Send(400, [error |-> "Bad Request",
                    message |-> "Required fields: style, move_name"])
    ELSE IF validateStyleThrows(body.style) THEN Throw
    ELSE IF ~Truthy(validateStyle(body.style))
    THEN Send(400, [error |-> "Invalid Style",
                    message |-> "Style not recognized. Use GET /styles for valid options.",
                    valid_styles |-> DANCE_STYLES])
    ELSE Mint([type |-> "move_verification",
               request |->
                 [style |-> validateStyle(body.style),
                  move_name |-> body.move_name,
                  claimed_creator |-> OrElse(body.claimed_creator, Str(S_unknown)),
                  description |-> OrElse(body.description, Null),
                  video_url |-> OrElse(body.video_url, Null)],
               result |->
                 [status |-> "recorded",
                  style_valid |-> TRUE,
                  confidence |-> 70,
                  attribution |->
                    IF Truthy(body.claimed_creator)
                    THEN [claimed |-> body.claimed_creator,
                          verified |-> FALSE,
                          note |-> "Attribution verification requires advanced tier"]
                    ELSE Null],
               price_paid |-> PriceText("verify/move")])

\* POST /verify/video; hash is the uuid drawn for content_hash
verifyVideo(body, hash) ==
    IF ~Truthy(body.video_url)
    THEN Send(400, [error |-> "Bad Request",
                    message |-> "Required field: video_url"])
    ELSE IF Truthy(body.style) /\ validateStyleThrows(body.style) THEN Throw
    ELSE Mint([type |-> "video_verification",
               request |->
                 [style |-> resolveStyle(body.style),
                  video_url |-> body.video_url,
                  title |-> OrElse(body.title, Null),
                  claimed_creators |-> OrElse(body.claimed_creators, Arr(<<>>)),
                  description |-> OrElse(body.description, Null)],
               result |->
                 [status |-> "recorded",
                  video_accessible |-> TRUE,
                  content_hash |-> <<"sha256_", hash>>,
                  style_detected |-> resolveStyle(body.style),
                  confidence |-> 65,
                  note |-> "Full video analysis requires advanced tier with AI processing"],
               price_paid |-> PriceText("verify/video")])

\* moves?.length
lengthOf(x) ==
    IF x.t \in {"arr", "str"} THEN Num(Len(x.v)) ELSE Undef

\* POST /verify/choreography
verifyChoreography(body) ==
    IF ~Truthy(body.video_url) /\ ~Truthy(body.moves)
    THEN Send(400, [error |-> "Bad Request",
                    message |-> "Required: video_url or moves array"])
    ELSE IF Truthy(body.style) /\ validateStyleThrows(body.style) THEN Throw
    ELSE Mint([type |-> "choreography_verification",
               request |->
                 [style |-> resolveStyle(body.style),
                  video_url |-> OrElse(body.video_url, Null),
                  title |-> OrElse(body.title, Null),
                  choreographer |-> OrElse(body.choreographer, Str(S_unknown)),
                  moves |-> OrElse(body.moves, Arr(<<>>)),
                  duration_seconds |-> OrElse(body.duration_seconds, Null)],
               result |->
                 [status |-> "recorded",
                  move_count |-> OrElse(lengthOf(body.moves), Str(S_pending_analysis)),
                  style_consistency |-> 80,
                  originality_score |-> 60,
                  choreographer_verified |-> FALSE,
                  note |-> "Full choreography breakdown requires advanced AI analysis"],
               price_paid |-> PriceText("verify/choreography")])

(***************************************************************************)
(* The krump knowledge base of the attribution handler.                    *)
(***************************************************************************)
knownMoves ==
    << [move |-> <<"c","h","e","s","t"," ","p","o","p">>, creator |-> <<"T","i","g","h","t"," ","E","y","e","z">>, era |-> "2000-2004"],
       [move |-> <<"a","r","m"," ","s","w","i","n","g">>, creator |-> <<"T","i","g","h","t"," ","E","y","e","z">>, era |-> "2000-2004"],
       [move |-> <<"s","t","o","m","p">>, creator |-> <<"B","i","g"," ","M","i","j","o">>, era |-> "2000-2004"],
       [move |-> <<"b","u","c","k">>, creator |-> <<"C","o","m","m","u","n","i","t","y">>, era |-> "2004-2008"],
       [move |-> <<"k","i","l","l"," ","o","f","f">>, creator |-> <<"V","a","r","i","o","u","s">>, era |-> "2005+"],
       [move |-> <<"j","a","b">>, creator |-> <<"C","o","m","m","u","n","i","t","y">>, era |-> "2002+"] >>

\* knownMoves is an object literal: a lookup also finds what it inherits from
\* Object.prototype.  Of those names only these two survive toLowerCase.
InheritedKeys == {<<"c","o","n","s","t","r","u","c","t","o","r">>, <<"_","_","p","r","o","t","o","_","_">>}

isKnownMove(name) == \E i \in 1..Len(knownMoves) : knownMoves[i].move = name
knownMove(name) == knownMoves[CHOOSE i \in 1..Len(knownMoves) : knownMoves[i].move = name]

\* a lookup that has a record only when the claimed creator matches
krumpLookupMatchOnly(move_name, claimed_creator) ==
    IF /\ isKnownMove(toLowerCase(move_name.v))
       /\ toLowerCase(knownMove(toLowerCase(move_name.v)).creator)
             = toLowerCase(claimed_creator.v)
    THEN [known_origin |->
            [creator |-> Str(knownMove(toLowerCase(move_name.v)).creator),
             era |-> knownMove(toLowerCase(move_name.v)).era],
          match |-> TRUE]
    ELSE Null

\* the krumpKnowledge of a request whose resolved style is krump
krumpLookup(move_name, claimed_creator) ==
    IF isKnownMove(toLowerCase(move_name.v))
    THEN [known_origin |->
            [creator |-> Str(knownMove(toLowerCase(move_name.v)).creator),
             era |-> knownMove(toLowerCase(move_name.v)).era],
          match |-> toLowerCase(knownMove(toLowerCase(move_name.v)).creator)
                      = toLowerCase(claimed_creator.v)]
    ELSE Null

\* the statements between `if (validStyle === 'krump')` and generateReceipt throw
krumpLookupThrows(move_name, claimed_creator) ==
    \/ move_name.t # "str"
    \/ /\ toLowerCase(move_name.v) \in InheritedKeys
    \/ /\ isKnownMove(toLowerCase(move_name.v))
       /\ claimed_creator.t # "str"

\* POST /verify/attribution
verifyAttribution(body) ==
    IF ~Truthy(body.move_name) \/ ~Truthy(body.claimed_creator)
    THEN Send(400, [error |-> "Bad Request",
                    message |-> "Required fields: move_name, claimed_creator"])
    ELSE IF Truthy(body.style) /\ validateStyleThrows(body.style) THEN Throw
    ELSE IF resolveStyle(body.style) = Str(S_krump)
            /\ krumpLookupThrows(body.move_name, body.claimed_creator)
    THEN Throw
    ELSE LET validStyle == resolveStyle(body.style)
             krumpKnowledge ==
                 IF validStyle = Str(S_krump)
                 THEN krumpLookup(body.move_name, body.claimed_creator)
                 ELSE Null
         IN Mint([type |-> "attribution_verification",
                  request |->
                    [move_name |-> body.move_name,
                     claimed_creator |-> body.claimed_creator,
                     style |-> validStyle,
                     year |-> OrElse(body.year, Null),
                     evidence_urls |-> OrElse(body.evidence_urls, Arr(<<>>))],
                  result |->
                    [status |-> "recorded",
                     claim_recorded |-> TRUE,
                     krump_database_match |-> krumpKnowledge,
                     verification_status |->
                        IF krumpKnowledge # Null /\ krumpKnowledge.match
                        THEN Str(S_likely_accurate)
                        ELSE Str(S_unverified),
                     confidence |-> IF krumpKnowledge # Null THEN 85 ELSE 50,
                     note |->
                        IF validStyle = Str(S_krump)
                        THEN "Krump attribution cross-referenced with our lineage database"
                        ELSE "Attribution recorded. Advanced verification coming soon."],
                  price_paid |-> PriceText("verify/attribution")])

(***************************************************************************)
(* generateReceipt.                                                        *)
(***************************************************************************)
Uuids == (1..MaxHigh) \X (1..MaxLow)

\* `dv_${uuidv4().replace(/-/g, '').slice(0, 16)}`
receiptIdOf(uuid) == <<"dv_", uuid[1]>>

\* new Date(timestamp).toISOString()
toISOString(time) == <<"ISO-8601", time>>

\* the receipt object generateReceipt builds for data
generateReceipt(data, uuid, time) ==
    [id |-> receiptIdOf(uuid),
     version |-> "1.0",
     service |-> "Dance Verify",
     timestamp |-> time,
     isoTime |-> toISOString(time),
     chain |-> "base-sepolia",
     chainId |-> CHAIN_ID,
     verifier |-> "WALLET_ADDRESS",
     type |-> data.type,
     request |-> data.request,
     result |-> data.result,
     price_paid |-> data.price_paid,
     verification_level |-> "basic",
     note |-> "Claim recorded. Advanced AI verification coming Q2 2026."]

\* a mint that stores nothing
storeReceiptLost(store, receipt) == store

\* receipts.set(receiptId, receipt)
storeReceipt(store, receipt) == mapSet(store, receipt.id, receipt)

(***************************************************************************)
(* The inputs of the model.                                                *)
(***************************************************************************)
\* the transaction references and the signature the proofs carry
TxA == Str(<<"0","x","a">>)
TxB == Str(<<"0","x","b">>)
TxRefs == {TxA, TxB}
Sig == Str(<<"0","x","s">>)

\* the x-402-payment headers of the requests: no header, the empty string,
\* text that is not JSON, null, a number, and objects: {}, {txHash: ""},
\* {signature}, {txHash}, {txHash, signature}
Headers ==
    {NoHeader,
     Header("empty", Undef, Undef),
     Header("garbage", Undef, Undef),
     Header("null", Undef, Undef),
     Header("number", Undef, Undef),
     Header("object", Undef, Undef),
     Header("object", Str(<<>>), Undef),
     Header("object", Undef, Sig),
     Header("object", TxA, Undef),
     Header("object", TxA, Sig),
     Header("object", TxB, Undef)}

\* the request bodies: no field at all; every field any handler requires;
\* an unrecognized style; a style that is not a string
BodyNone == EmptyBody
BodyFull ==
    [EmptyBody EXCEPT !.style = Str(<<" ","K","R","U","M","P"," ">>),
                      !.move_name = Str(<<"C","h","e","s","t"," ","P","o","p">>),
                      !.claimed_creator = Str(<<"t","i","g","h","t"," ","e","y","e","z">>),
                      !.video_url = Str(<<"v">>),
                      !.moves = Arr(<<"m1", "m2">>)]
BodyBadStyle ==
    [EmptyBody EXCEPT !.style = Str(<<"n","o","t","-","a","-","s","t","y","l","e">>),
                      !.move_name = Str(<<"x">>)]
BodyNumStyle ==
    [EmptyBody EXCEPT !.style = Num(5),
                      !.move_name = Str(<<"x">>),
                      !.claimed_creator = Str(<<"c">>),
                      !.video_url = Str(<<"v">>)]
Bodies == {BodyNone, BodyFull, BodyBadStyle, BodyNumStyle}

\* the :id of GET /receipt/:id: every identifier mint can produce, and one
\* it cannot
ReceiptParams == {receiptIdOf(u) : u \in Uuids} \cup {<<"nope", 0>>}

(***************************************************************************)
(* State.                                                                  *)
(***************************************************************************)
\* what Date.now() may return: the wall clock, which need not be monotonic
Times == 0..MaxTime

VARIABLES
    payments,   \* the payments Map: txHash -> [usedAt]
    receipts,   \* the receipts Map: receipt id -> receipt
    slots,      \* the requests suspended at the await of x402Middleware
    nreq,       \* how many requests to a protected endpoint were received
    resp,       \* the response sent last
    served,     \* history: the headers of the requests that reached a handler
    minted,     \* history: the receipts generateReceipt has returned
    reqBody,    \* the req.body of the request a route handler ran on last
    styleCall   \* the last direct call of validateStyle: its argument and result

vars == <<payments, receipts, slots, nreq, resp, served, minted, reqBody, styleCall>>

Slots == 1..MaxReq

IdleSlot ==
    [pc |-> "idle", endpoint |-> "none", header |-> NoHeader, isValid |-> FALSE]

\* a response: the route, payment header and :id of the request it answers,
\* its status and its JSON body
Response(route, header, param, status, json) ==
    [route |-> route, header |-> header, param |-> param, status |-> status,
     json |-> json]

NoParam == <<"", 0>>
NoResponse == Response("none", NoHeader, NoParam, 0, Null)

\* no call of validateStyle yet
NoCall == [arg |-> Undef, result |-> Undef]

Init ==
    /\ payments = EmptyMap
    /\ receipts = EmptyMap
    /\ slots = [s \in Slots |-> IdleSlot]
    /\ nreq = 0
    /\ resp = NoResponse
    /\ served = {}
    /\ minted = {}
    /\ reqBody = EmptyBody
    /\ styleCall = NoCall

(***************************************************************************)
(* Actions.                                                                *)
(***************************************************************************)
\* x402Middleware of a request without a payment header: 402 with the
\* payment details
PaymentRequired(e, h) ==
    /\ nreq < MaxReq
    /\ HeaderFalsy(h)
    /\ nreq' = nreq + 1
    /\ resp' = Response(e, h, NoParam, 402,
                        [error |-> "Payment Required",
                         message |-> "This endpoint requires USDC payment via x402",
                         payment |-> createPaymentRequired(e)])
    /\ UNCHANGED <<payments, receipts, slots, served, minted, reqBody, styleCall>>

\* x402Middleware of a request with a payment header: verifyPayment runs to
\* its end, then the middleware is suspended at its await
Verify(s, e, h) ==
    /\ nreq < MaxReq
    /\ slots[s].pc = "idle"
    /\ ~HeaderFalsy(h)
    /\ nreq' = nreq + 1
    /\ \E time \in Times :
          LET v == verifyPayment(h, payments, time)
          IN /\ payments' = v.payments
             /\ slots' = [slots EXCEPT ![s] =
                             [pc |-> "awaiting", endpoint |-> e, header |-> h,
                              isValid |-> v.ok]]
    /\ UNCHANGED <<receipts, resp, served, minted, reqBody, styleCall>>

\* a middleware that validates the body before it looks at the gate's verdict
PaymentInvalidBadRequest(s) ==
    /\ slots[s].pc = "awaiting"
    /\ ~slots[s].isValid
    /\ resp' = Response(slots[s].endpoint, slots[s].header, NoParam, 400,
                        [error |-> "Bad Request",
                         message |-> "Required fields: style, move_name"])
    /\ slots' = [slots EXCEPT ![s] = IdleSlot]
    /\ UNCHANGED <<payments, receipts, nreq, served, minted, reqBody, styleCall>>

\* x402Middleware resumes, !isValid: 402
PaymentInvalid(s) ==
    /\ slots[s].pc = "awaiting"
    /\ ~slots[s].isValid
    /\ resp' = Response(slots[s].endpoint, slots[s].header, NoParam, 402,
                        [error |-> "Invalid Payment",
                         message |-> "Payment verification failed. Please provide a valid x402 payment."])
    /\ slots' = [slots EXCEPT ![s] = IdleSlot]
    /\ UNCHANGED <<payments, receipts, nreq, served, minted, reqBody, styleCall>>

\* the handler the route of endpoint e runs on body b
handlerOf(e, b, hash) ==
    CASE e = "verify/move" -> verifyMove(b)
      [] e = "verify/video" -> verifyVideo(b, hash)
      [] e = "verify/choreography" -> verifyChoreography(b)
      [] e = "verify/attribution" -> verifyAttribution(b)

\* the uuids a handler may draw for content_hash: only verify/video draws one
HashUuids(e) == IF e = "verify/video" THEN Uuids ELSE {<<0, 0>>}

\* a handler that gives the reference back when it answers 400
HandleErrorRefunds(s, body) ==
    /\ slots[s].pc = "awaiting"
    /\ slots[s].isValid
    /\ LET out == handlerOf(slots[s].endpoint, body, <<0, 0>>)
       IN /\ out.data = Null
          /\ resp' = Response(slots[s].endpoint, slots[s].header, NoParam,
                              out.status, out.json)
    /\ payments' = [t \in DOMAIN payments \ {txHashOf(slots[s].header)} |-> payments[t]]
    /\ served' = served \cup {slots[s].header}
    /\ slots' = [slots EXCEPT ![s] = IdleSlot]
    /\ reqBody' = body
    /\ UNCHANGED <<receipts, nreq, minted, styleCall>>

\* x402Middleware resumes, isValid: next() runs the route's handler on
\* req.body, and the handler answers 400 or throws: no receipt is minted
HandleError(s, body) ==
    /\ slots[s].pc = "awaiting"
    /\ slots[s].isValid
    /\ LET out == handlerOf(slots[s].endpoint, body, <<0, 0>>)
       IN /\ out.data = Null
          /\ resp' = Response(slots[s].endpoint, slots[s].header, NoParam,
                              out.status, out.json)
    /\ served' = served \cup {slots[s].header}
    /\ slots' = [slots EXCEPT ![s] = IdleSlot]
    /\ reqBody' = body
    /\ UNCHANGED <<payments, receipts, nreq, minted, styleCall>>

\* x402Middleware resumes, isValid: next() runs the route's handler on
\* req.body, and the handler calls generateReceipt and answers with the receipt
HandleMint(s, body) ==
    /\ slots[s].pc = "awaiting"
    /\ slots[s].isValid
    /\ \E hash \in HashUuids(slots[s].endpoint), uuid \in Uuids, time \in Times :
          LET out == handlerOf(slots[s].endpoint, body, hash)
              receipt == generateReceipt(out.data, uuid, time)
          IN /\ out.data # Null
             /\ receipts' = storeReceipt(receipts, receipt)
             /\ minted' = minted \cup {receipt}
             /\ resp' = Response(slots[s].endpoint, slots[s].header, NoParam,
                                 out.status, receipt)
    /\ served' = served \cup {slots[s].header}
    /\ slots' = [slots EXCEPT ![s] = IdleSlot]
    /\ reqBody' = body
    /\ UNCHANGED <<payments, nreq, styleCall>>

\* GET /receipt/:id
GetReceipt(id) ==
    /\ resp' = IF mapGet(receipts, id) # Undef
               THEN Response("receipt", NoHeader, id, 200, mapGet(receipts, id))
               ELSE Response("receipt", NoHeader, id, 404,
                             [error |-> "Not Found",
                              message |-> "Receipt not found. It may have expired or never existed."])
    /\ UNCHANGED <<payments, receipts, slots, nreq, served, minted, reqBody, styleCall>>

\* GET /health (of its body, status and receipts_issued)
GetHealth ==
    /\ resp' = Response("health", NoHeader, NoParam, 200,
                        [status |-> "healthy",
                         receipts_issued |-> mapSize(receipts)])
    /\ UNCHANGED <<payments, receipts, slots, nreq, served, minted, reqBody, styleCall>>

\* GET / (of its body, the service description and its price list)
GetRoot ==
    /\ resp' = Response("root", NoHeader, NoParam, 200,
                        [service |-> "Dance Verify",
                         version |-> "1.0.0",
                         status |-> "operational",
                         chain |-> "base-sepolia",
                         wallet |-> "WALLET_ADDRESS",
                         prices |-> [e \in Endpoints |-> PriceText(e)]])
    /\ UNCHANGED <<payments, receipts, slots, nreq, served, minted, reqBody, styleCall>>

\* GET /styles
GetStyles ==
    /\ resp' = Response("styles", NoHeader, NoParam, 200,
                        [styles |-> DANCE_STYLES,
                         count |-> Len(DANCE_STYLES),
                         specialty |-> [style |-> "krump", level |-> "expert"]])
    /\ UNCHANGED <<payments, receipts, slots, nreq, served, minted, reqBody, styleCall>>

Next ==
    \/ \E e \in Endpoints, h \in Headers : PaymentRequired(e, h)
    \/ \E s \in Slots, e \in Endpoints, h \in Headers : Verify(s, e, h)
    \/ \E s \in Slots : PaymentInvalid(s)
    \/ \E s \in Slots, body \in Bodies : HandleError(s, body)
    \/ \E s \in Slots, body \in Bodies : HandleMint(s, body)
    \/ \E id \in ReceiptParams : GetReceipt(id)
    \/ GetHealth
    \/ GetRoot
    \/ GetStyles

Spec == Init /\ [][Next]_vars

(***************************************************************************)
(* The verification operations on a wider set of request bodies: one       *)
(* client that pays with the proof {txHash: "0xa"} and sends any of the    *)
(* bodies below to any of the four endpoints.                              *)
(***************************************************************************)
ProofA == Header("object", TxA, Undef)

\* style: missing, empty, recognized in another case and padded, recognized
\* in another case, unrecognized
OpStyles ==
    {Undef, Str(<<>>), Str(<<" ","K","R","U","M","P"," ">>), Str(<<"T","a","p">>), Str(<<"n","o","t","-","a","-","s","t","y","l","e">>)}

\* move_name: missing, in the known-moves table in another case, not in the
\* table, a name every object inherits
OpMoveNames ==
    {Undef, Str(<<"C","h","e","s","t"," ","P","o","p">>), Str(<<"w","i","n","d","m","i","l","l">>), Str(<<"c","o","n","s","t","r","u","c","t","o","r">>)}

\* claimed_creator: missing, the known creator of chest pop in another case,
\* somebody else
OpCreators == {Undef, Str(<<"t","i","g","h","t"," ","e","y","e","z">>), Str(<<"S","o","m","e","o","n","e"," ","E","l","s","e">>)}

OpVideoUrls == {Undef, Str(<<"v">>)}

\* moves: missing, the empty list, a list of two
OpMoves == {Undef, Arr(<<>>), Arr(<<"m1", "m2">>)}

OpBodies ==
    {[EmptyBody EXCEPT !.style = st, !.move_name = mv, !.claimed_creator = cr,
                       !.video_url = vu, !.moves = ms] :
        st \in OpStyles, mv \in OpMoveNames, cr \in OpCreators,
        vu \in OpVideoUrls, ms \in OpMoves}

NextOps ==
    \/ \E e \in Endpoints : Verify(1, e, ProofA)
    \/ PaymentInvalid(1)
    \/ \E body \in OpBodies : HandleError(1, body)
    \/ \E body \in OpBodies : HandleMint(1, body)

SpecOps == Init /\ [][NextOps]_vars

(***************************************************************************)
(* validateStyle called directly on texts: style identifiers and other     *)
(* words, in lower case, in upper case and capitalized, with whitespace    *)
(* before and after.                                                       *)
(***************************************************************************)
StyleWords ==
    {<<"k","r","u","m","p">>, <<"h","i","p","-","h","o","p">>, <<"t","a","p">>, <<"o","t","h","e","r">>, <<"n","o","p","e">>, <<"k","r"," ","u","m","p">>, <<>>}

UpperOf ==
    [c \in {LowerChars[i] : i \in 1..Len(LowerChars)} |->
        UpperChars[CHOOSE i \in 1..Len(LowerChars) : LowerChars[i] = c]]

toUpperChar(c) == IF c \in DOMAIN UpperOf THEN UpperOf[c] ELSE c

InUpperCase(w) == [i \in 1..Len(w) |-> toUpperChar(w[i])]

Capitalized(w) == [i \in 1..Len(w) |-> IF i = 1 THEN toUpperChar(w[i]) ELSE w[i]]

Paddings == {<<>>, <<" ">>, <<"\t">>, <<"\n", " ">>}

StyleInputs ==
    {l \o c \o r :
        l \in Paddings, r \in Paddings,
        c \in UNION {{w, InUpperCase(w), Capitalized(w)} : w \in StyleWords}}

\* validateStyle(text)
ValidateStyle(text) ==
    /\ styleCall' = [arg |-> Str(text), result |-> validateStyle(Str(text))]
    /\ UNCHANGED <<payments, receipts, slots, nreq, resp, served, minted, reqBody>>

NextStyle == \E text \in StyleInputs : ValidateStyle(text)

SpecStyle == Init /\ [][NextStyle]_vars

(***************************************************************************)
(* What a step is, read off the state it changes.                          *)
(***************************************************************************)
\* the step is the gate decision of the request now suspended in slot s
GateAt(s) == slots[s].pc = "idle" /\ slots'[s].pc = "awaiting"

\* the step answers the request suspended in slot s
AnswerAt(s) == slots[s].pc = "awaiting" /\ slots'[s].pc = "idle"

\* the step answers a request that has no usable payment header at all
RequiredStep == slots' = slots /\ nreq' = nreq + 1

\* the step is a request to a free endpoint
FreeStep == slots' = slots /\ nreq' = nreq

\* resp answers a request to a protected endpoint
Protected == resp.route \in Endpoints

\* resp is the 402 of the given kind
Is402(error) == resp.status = 402 /\ resp.json.error = error

(***************************************************************************)
(* C1.  Replay rejection: once a request carrying the transaction          *)
(* reference t has passed the payment gate, the gate rejects every later   *)
(* request whose proof carries t, and a rejected request is answered 402   *)
(* Invalid Payment, whatever its endpoint and signature.                   *)
(***************************************************************************)
\* a request carrying t has passed the gate
PassedGate(t) ==
    \/ \E h \in served : txHashOf(h) = t
    \/ \E s \in Slots : /\ slots[s].pc = "awaiting"
                        /\ slots[s].isValid
                        /\ txHashOf(slots[s].header) = t

C1_ReplayRejected ==
    [][\A s \in Slots :
         /\ \A t \in TxRefs :
               (GateAt(s) /\ txHashOf(slots'[s].header) = t /\ PassedGate(t))
                  => ~slots'[s].isValid
         /\ (AnswerAt(s) /\ ~slots[s].isValid)
               => /\ resp'.header = slots[s].header
                  /\ Is402("Invalid Payment")'
                  /\ receipts' = receipts]_vars

\* a replay of TxA under another signature field has been rejected at the gate
C1_Witness ==
    \E s \in Slots :
       /\ slots[s].pc = "awaiting"
       /\ ~slots[s].isValid
       /\ slots[s].header = Header("object", TxA, Undef)
       /\ Header("object", TxA, Sig) \in served

(***************************************************************************)
(* C2.  Atomic check-and-record: of the requests that carry the same       *)
(* transaction reference, at most one ever holds a gate acceptance, and    *)
(* when two of them are in flight together and none was served before,     *)
(* exactly one holds it: no state has two requests that both saw the       *)
(* reference as unused.                                                    *)
(***************************************************************************)
Carriers(t) ==
    {s \in Slots : slots[s].pc = "awaiting" /\ txHashOf(slots[s].header) = t}
Winners(t) == {s \in Carriers(t) : slots[s].isValid}
ServedWith(t) == {h \in served : txHashOf(h) = t}

C2_ExactlyOnePasses ==
    \A t \in TxRefs :
       /\ Cardinality(Winners(t)) + Cardinality(ServedWith(t)) <= 1
       /\ (Cardinality(Carriers(t)) >= 2 /\ ServedWith(t) = {})
             => Cardinality(Winners(t)) = 1

\* two requests carrying TxA are suspended together: one accepted, one rejected
C2_Witness ==
    \E s1, s2 \in Slots :
       /\ s1 # s2
       /\ {s1, s2} \subseteq Carriers(TxA)
       /\ slots[s1].isValid
       /\ ~slots[s2].isValid
       /\ served = {}

(***************************************************************************)
(* C3.  A well-formed proof lets at most one request reach a verification  *)
(* operation: a request never reaches a handler with a proof that an       *)
(* earlier request already reached a handler with.                         *)
(***************************************************************************)
C3_ProofSingleUse ==
    [][\A s \in Slots :
         (AnswerAt(s) /\ slots[s].isValid) => slots[s].header \notin served]_vars

(***************************************************************************)
(* C4.  Gate before logic: a request without a proof, or whose proof the   *)
(* gate rejected, is answered 402 and mints nothing; a 400, a 200 and a    *)
(* new receipt only ever come from a request the gate accepted, whose      *)
(* header therefore is an object with a txHash or a signature.             *)
(***************************************************************************)
WellFormed(h) ==
    h.kind = "object" /\ (Truthy(h.txHash) \/ Truthy(h.signature))

C4_GateBeforeLogic ==
    [][/\ \A s \in Slots :
            (AnswerAt(s) /\ ~slots[s].isValid)
               => resp'.status = 402 /\ receipts' = receipts
       /\ RequiredStep => resp'.status = 402 /\ receipts' = receipts
       /\ (resp' # resp /\ resp'.route \in Endpoints /\ resp'.status # 402)
             => /\ WellFormed(resp'.header)
                /\ \E s \in Slots : AnswerAt(s) /\ slots[s].isValid
       /\ receipts' # receipts
             => \E s \in Slots : AnswerAt(s) /\ slots[s].isValid]_vars

\* a replayed proof was answered 402 although a paid request was answered 400
\* or 200 before
C4_Witness ==
    /\ Protected
    /\ Is402("Invalid Payment")
    /\ resp.header = Header("object", TxA, Sig)
    /\ Header("object", TxA, Undef) \in served

(***************************************************************************)
(* C5.  A request without a proof header is answered 402 Payment Required  *)
(* with amount floor(price * 10^6) of its operation: 1000, 10000, 50000,   *)
(* 5000 for move, video, choreography, attribution; the used-proof set and *)
(* the receipt store are left unchanged.                                   *)
(***************************************************************************)
AmountOfTable(e) ==
    CASE e = "verify/move" -> <<"1","0","0","0">>
      [] e = "verify/video" -> <<"1","0","0","0","0">>
      [] e = "verify/choreography" -> <<"5","0","0","0","0">>
      [] e = "verify/attribution" -> <<"5","0","0","0">>

C5_PaymentRequiredAmount ==
    [][(RequiredStep /\ resp'.header = NoHeader)
          => /\ resp'.route \in Endpoints
             /\ Is402("Payment Required")'
             /\ resp'.json.payment.amount = Str(AmountOfTable(resp'.route))
             /\ payments' = payments
             /\ receipts' = receipts]_vars

\* the attribution endpoint has asked for 5000 units
C5_Witness ==
    /\ resp.route = "verify/attribution"
    /\ resp.header = NoHeader
    /\ Is402("Payment Required")
    /\ resp.json.payment.amount = Str(<<"5","0","0","0">>)

(***************************************************************************)
(* C6.  A proof header that is present but is not the text of an object,   *)
(* or is an object with neither a transaction reference nor a signature,   *)
(* is answered 402 Invalid Payment, and nothing is recorded as used.       *)
(***************************************************************************)
\* present, not empty, and not a proof
Malformed(h) ==
    \/ h.kind \in {"garbage", "null", "number"}
    \/ h.kind = "object" /\ ~Truthy(h.txHash) /\ ~Truthy(h.signature)

\* resp, when it answers a request with header h, is 402 Invalid Payment
AnsweredInvalid(h) ==
    (Protected /\ resp.header = h) => Is402("Invalid Payment")

\* a request with header h records nothing
RecordsNothing(h) ==
    /\ \A s \in Slots :
          (GateAt(s) /\ slots'[s].header = h) => payments' = payments
    /\ (RequiredStep /\ resp'.header = h) => payments' = payments

\* the claim as stated: every present header that is not a proof
C6_PresentMalformedInvalid ==
    [][\A h \in Headers :
         (Malformed(h) \/ h.kind = "empty")
            => AnsweredInvalid(h)' /\ RecordsNothing(h)]_vars

\* the claim amended: every present, non-empty header that is not a proof is
\* answered Invalid Payment; the empty header is answered Payment Required
C6_NonEmptyMalformedInvalid ==
    [][\A h \in Headers :
         /\ Malformed(h) => AnsweredInvalid(h)' /\ RecordsNothing(h)
         /\ h.kind = "empty"
               => /\ ((Protected /\ resp.header = h) => Is402("Payment Required"))'
                  /\ RecordsNothing(h)]_vars

\* the header null was answered Invalid Payment
C6_Witness ==
    /\ Protected
    /\ resp.header.kind = "null"
    /\ Is402("Invalid Payment")
    /\ payments = EmptyMap

(***************************************************************************)
(* C7.  Every request to a protected endpoint ends in 402, 400, or 200     *)
(* with a newly minted receipt; nothing else, such as a 500.               *)
(***************************************************************************)
C7_OnlyThreeOutcomes ==
    Protected
       => /\ resp.status \in {402, 400, 200}
          /\ resp.status = 200 => resp.json \in minted

(***************************************************************************)
(* C8.  Receipts are write-once: every receipt that was minted is still    *)
(* stored under its identifier with the content it was created with.       *)
(***************************************************************************)
C8_WriteOnce ==
    \A r \in minted : r.id \in DOMAIN receipts /\ receipts[r.id] = r

(***************************************************************************)
(* C9.  Round trip: GET /receipt/{id} with the identifier of the receipt   *)
(* just returned by a verification answers 200 with that same receipt.     *)
(***************************************************************************)
C9_RoundTrip ==
    [][(/\ Protected
        /\ resp.status = 200
        /\ FreeStep
        /\ resp'.route = "receipt"
        /\ resp'.param = resp.json.id)
          => resp'.status = 200 /\ resp'.json = resp.json]_vars

\* a minted video receipt was fetched
C9_Witness ==
    /\ resp.route = "receipt"
    /\ resp.status = 200
    /\ resp.json \in minted
    /\ resp.json.id = resp.param
    /\ resp.json.type = "video_verification"

(***************************************************************************)
(* C10.  Receipt lookup is a pure read: for an identifier never minted it  *)
(* answers 404 Not Found, for a minted one 200 with the stored receipt,    *)
(* and it changes neither the receipt store nor the used-proof set.        *)
(***************************************************************************)
MintedIds == {r.id : r \in minted}

C10_LookupPure ==
    [][(FreeStep /\ resp'.route = "receipt")
          => /\ resp'.param \notin MintedIds
                   => resp'.status = 404 /\ resp'.json.error = "Not Found"
             /\ resp'.param \in MintedIds
                   => /\ resp'.status = 200
                      /\ resp'.param \in DOMAIN receipts
                      /\ resp'.json = receipts[resp'.param]
             /\ receipts' = receipts
             /\ payments' = payments]_vars

\* with a receipt in the store, an identifier mint can produce but has not
\* produced was answered 404
C10_Witness ==
    /\ resp.route = "receipt"
    /\ resp.status = 404
    /\ resp.param = <<"dv_", 2>>
    /\ MintedIds = {<<"dv_", 1>>}

(***************************************************************************)
(* C11.  The receipts_issued a health request reports equals the number of *)
(* receipts minted so far.  minted holds the distinct receipts returned by *)
(* generateReceipt, so its size is at most the number of mints.            *)
(***************************************************************************)
C11_HealthCountsMints ==
    [][(FreeStep /\ resp'.route = "health")
          => resp'.json.receipts_issued = Cardinality(minted)]_vars

(***************************************************************************)
(* What the claims about styles mean by a recognized style: the text with  *)
(* its surrounding whitespace removed and its letters in lower case is one *)
(* of the style identifiers.  Written from the claims, not from the code.  *)
(***************************************************************************)
FoldCase(s) ==
    [i \in 1..Len(s) |-> IF s[i] \in DOMAIN LowerOf THEN LowerOf[s[i]] ELSE s[i]]

StripEnds(s) ==
    LET inner == {i \in 1..Len(s) : s[i] \notin WhiteSpace}
    IN IF inner = {} THEN <<>>
       ELSE SubSeq(s, CHOOSE i \in inner : \A j \in inner : i <= j,
                      CHOOSE i \in inner : \A j \in inner : i >= j)

Canon(s) == FoldCase(StripEnds(s))

\* x is a string that names a style
Recognized(x) == x.t = "str" /\ Canon(x.v) \in StyleSet

\* x is a style identifier itself
IsStyleId(x) == x.t = "str" /\ x.v \in StyleSet

\* resp is the receipt the handler of route e minted for reqBody
MintedBy(e) == resp.route = e /\ resp.status = 200

\* the step is the answer of the handler of route e to an accepted request
HandlerStep(e) ==
    \E s \in Slots :
       AnswerAt(s) /\ slots[s].isValid /\ slots[s].endpoint = e

TolerantRoutes == {"verify/video", "verify/choreography", "verify/attribution"}

(***************************************************************************)
(* C12.  In the video, choreography and attribution operations a style     *)
(* that is missing or not recognized is recorded as 'other', so the style  *)
(* of every receipt of these three types is a style identifier.            *)
(***************************************************************************)
C12_TolerantStyleCoerced ==
    /\ \A e \in TolerantRoutes :
          (MintedBy(e) /\ ~Recognized(reqBody.style))
             => resp.json.request.style = Str(S_other)
    /\ \A r \in minted :
          r.type # "move_verification" => IsStyleId(r.request.style)

(***************************************************************************)
(* C13.  Move verification of a paid request whose style is present but    *)
(* not recognized is answered 400 Invalid Style with the whole style list, *)
(* and mints nothing; a move_verification receipt always records a style   *)
(* identifier.                                                             *)
(***************************************************************************)
\* the answer to the request is InvalidStyle and nothing is minted
InvalidStyleStep ==
    /\ resp'.status = 400
    /\ resp'.json.error = "Invalid Style"
    /\ resp'.json.valid_styles = DANCE_STYLES
    /\ receipts' = receipts
    /\ minted' = minted

MoveReceiptsRecognized ==
    \A r \in minted : r.type = "move_verification" => IsStyleId(r.request.style)

\* the claim as stated: every present style that is not recognized, whatever
\* else the body holds
C13_PresentBadStyleInvalid ==
    [][/\ (/\ HandlerStep("verify/move")
           /\ Truthy(reqBody'.style)
           /\ reqBody'.style.t = "str"
           /\ ~Recognized(reqBody'.style))
             => InvalidStyleStep
       /\ MoveReceiptsRecognized']_vars

\* the claim amended: the required fields are checked first
C13_BadStyleInvalid ==
    [][/\ (/\ HandlerStep("verify/move")
           /\ Truthy(reqBody'.style)
           /\ Truthy(reqBody'.move_name)
           /\ reqBody'.style.t = "str"
           /\ ~Recognized(reqBody'.style))
             => InvalidStyleStep
       /\ (/\ HandlerStep("verify/move")
           /\ (~Truthy(reqBody'.style) \/ ~Truthy(reqBody'.move_name)))
             => /\ resp'.status = 400
                /\ resp'.json.error = "Bad Request"
                /\ receipts' = receipts
                /\ minted' = minted
       /\ MoveReceiptsRecognized']_vars

\* the style not-a-style was answered Invalid Style
C13_Witness ==
    /\ resp.route = "verify/move"
    /\ resp.status = 400
    /\ resp.json.error = "Invalid Style"
    /\ reqBody.style = Str(<<"n","o","t","-","a","-","s","t","y","l","e">>)
    /\ minted = {}

(***************************************************************************)
(* What the claims about attribution mean, written from the claims: the    *)
(* style resolves to krump, the move name in lower case is one of the six  *)
(* names of the table, the claimed creator is the known one up to case.    *)
(***************************************************************************)
SixMoves ==
    {<<"c","h","e","s","t"," ","p","o","p">>,
     <<"a","r","m"," ","s","w","i","n","g">>,
     <<"s","t","o","m","p">>,
     <<"b","u","c","k">>,
     <<"k","i","l","l"," ","o","f","f">>,
     <<"j","a","b">>}

ResolvedKrump(b) == b.style.t = "str" /\ Canon(b.style.v) = S_krump

KnownName(b) == b.move_name.t = "str" /\ FoldCase(b.move_name.v) \in SixMoves

CreatorMatches(b) ==
    \E i \in 1..Len(knownMoves) :
       /\ knownMoves[i].move = FoldCase(b.move_name.v)
       /\ FoldCase(knownMoves[i].creator) = FoldCase(b.claimed_creator.v)

\* resp is the answer of the attribution handler to reqBody, which has the
\* two required fields
AttributionRan ==
    /\ resp.route = "verify/attribution"
    /\ resp.status # 402
    /\ Truthy(reqBody.move_name)
    /\ Truthy(reqBody.claimed_creator)

(***************************************************************************)
(* C14.  Attribution status: a request resolved to krump whose lower-cased *)
(* move name is in the table gets likely_accurate exactly when the claimed *)
(* creator is the known creator up to case; every other attribution        *)
(* request, with another style or an unknown move, gets unverified.        *)
(***************************************************************************)
C14_AttributionStatus ==
    AttributionRan
       => /\ resp.status = 200
          /\ resp.json.result.verification_status =
                IF /\ ResolvedKrump(reqBody)
                   /\ KnownName(reqBody)
                   /\ CreatorMatches(reqBody)
                THEN Str(S_likely_accurate)
                ELSE Str(S_unverified)

(***************************************************************************)
(* C15.  validateStyle is insensitive to letter case and surrounding       *)
(* whitespace and idempotent on its results: texts that differ only in     *)
(* case or in whitespace before and after give the same result, a result r *)
(* that is not null satisfies validateStyle(r) = r, and the result is a    *)
(* style identifier or null.                                               *)
(***************************************************************************)
C15_ValidateStyleCanonical ==
    styleCall # NoCall
       => /\ styleCall.result = Null \/ IsStyleId(styleCall.result)
          /\ styleCall.result =
                IF Canon(styleCall.arg.v) \in StyleSet
                THEN Str(Canon(styleCall.arg.v))
                ELSE Null
          /\ \A text \in StyleInputs :
                Canon(text) = Canon(styleCall.arg.v)
                   => validateStyle(Str(text)) = styleCall.result
          /\ styleCall.result # Null
                => validateStyle(styleCall.result) = styleCall.result

\* KRUMP between a tab and a newline was validated as krump
C15_Witness ==
    /\ styleCall.arg = Str(<<"\t", "K", "R", "U", "M", "P", "\n", " ">>)
    /\ styleCall.result = Str(S_krump)

(***************************************************************************)
(* C16.  Attribution confidence: the confidence of an attribution receipt  *)
(* is 0.85 exactly when there is a Knowledge Base match and 0.5 otherwise. *)
(* Confidences are in hundredths.                                          *)
(***************************************************************************)
\* the claim as stated: a match is the claimed creator matching the known
\* one, so 0.85 never accompanies unverified
C16_HighConfidenceIffCreatorMatches ==
    MintedBy("verify/attribution")
       => /\ resp.json.result.confidence \in {85, 50}
          /\ resp.json.result.confidence = 85
                <=> /\ ResolvedKrump(reqBody)
                    /\ KnownName(reqBody)
                    /\ CreatorMatches(reqBody)
          /\ ~ /\ resp.json.result.confidence = 85
               /\ resp.json.result.verification_status = Str(S_unverified)

\* the claim amended: a match is the table having a record of the move
C16_HighConfidenceIffRecord ==
    MintedBy("verify/attribution")
       => /\ resp.json.result.confidence \in {85, 50}
          /\ resp.json.result.confidence = 85
                <=> (ResolvedKrump(reqBody) /\ KnownName(reqBody))
          /\ resp.json.result.confidence = 85
                <=> resp.json.result.krump_database_match # Null

\* chest pop claimed for somebody else: 0.85 and unverified
C16_Witness ==
    /\ MintedBy("verify/attribution")
    /\ reqBody.claimed_creator = Str(<<"S","o","m","e","o","n","e"," ","E","l","s","e">>)
    /\ resp.json.result.confidence = 85
    /\ resp.json.result.verification_status = Str(S_unverified)

(***************************************************************************)
(* C17.  The Knowledge Base lookup has a record only when the resolved     *)
(* style is krump and the lower-cased move name is one of the six names of *)
(* the table; for every other style and move name krump_database_match is  *)
(* null and the request still completes with a receipt.                    *)
(***************************************************************************)
C17_RecordOnlyForSixMoves ==
    AttributionRan
       => /\ resp.status = 200
          /\ resp.json.result.krump_database_match # Null
                <=> (ResolvedKrump(reqBody) /\ KnownName(reqBody))

(***************************************************************************)
(* C18.  Choreography move count: when a moves list is supplied move_count *)
(* is its length, 0 for the empty list; the pending sentinel appears only  *)
(* when no list is supplied.                                               *)
(***************************************************************************)
C18_MoveCountIsLength ==
    MintedBy("verify/choreography")
       => /\ reqBody.moves.t = "arr"
                => resp.json.result.move_count = Num(Len(reqBody.moves.v))
          /\ resp.json.result.move_count = Str(S_pending_analysis)
                => reqBody.moves = Undef

(***************************************************************************)
(* C19.  The used-proof set grows monotonically: in every step a recorded  *)
(* transaction reference stays recorded, with the timestamp it was         *)
(* recorded with.                                                          *)
(***************************************************************************)
C19_UsedProofsMonotonic ==
    [][\A t \in DOMAIN payments :
          t \in DOMAIN payments' /\ payments'[t] = payments[t]]_vars

\* TxA was recorded at time 0, TxB at time 1 after it, and both are kept
C19_Witness ==
    /\ DOMAIN payments = {TxA, TxB}
    /\ payments[TxA].usedAt = 0
    /\ payments[TxB].usedAt = 1
    /\ \E h \in served : txHashOf(h) = TxA

(***************************************************************************)
(* C20.  A transaction reference is consumed at the gate, before the       *)
(* operation's validation: when an accepted request is answered 400 no     *)
(* receipt is minted and its reference stays recorded; a retry with that   *)
(* reference is rejected at the gate and answered 402 Invalid Payment; and *)
(* a receipt is minted only in the answer to one accepted request, one     *)
(* receipt at most per acceptance.                                         *)
(***************************************************************************)
C20_ConsumedBeforeValidation ==
    [][/\ \A s \in Slots :
            (AnswerAt(s) /\ slots[s].isValid /\ resp'.status = 400)
               => /\ receipts' = receipts
                  /\ minted' = minted
                  /\ Truthy(txHashOf(slots[s].header))
                        => txHashOf(slots[s].header) \in DOMAIN payments'
       /\ \A s \in Slots :
            (/\ GateAt(s)
             /\ Protected
             /\ resp.status = 400
             /\ Truthy(txHashOf(resp.header))
             /\ txHashOf(slots'[s].header) = txHashOf(resp.header))
               => ~slots'[s].isValid
       /\ \A s \in Slots :
            (/\ AnswerAt(s)
             /\ ~slots[s].isValid
             /\ Protected
             /\ resp.status = 400
             /\ txHashOf(slots[s].header) = txHashOf(resp.header))
               => Is402("Invalid Payment")'
       /\ minted' # minted
             => /\ Cardinality({s \in Slots : AnswerAt(s) /\ slots[s].isValid}) = 1
                /\ Cardinality(minted') = Cardinality(minted) + 1]_vars

\* TxA was accepted and its request answered 400; the retry with TxA is
\* rejected, and there is no receipt
C20_Witness ==
    /\ Protected
    /\ resp.status = 400
    /\ txHashOf(resp.header) = TxA
    /\ TxA \in DOMAIN payments
    /\ receipts = EmptyMap
    /\ \E s \in Slots : /\ slots[s].pc = "awaiting"
                        /\ ~slots[s].isValid
                        /\ txHashOf(slots[s].header) = TxA

(***************************************************************************)
(* C21.  Frame: a request the gate rejects, with 402 Payment Required or   *)
(* 402 Invalid Payment, and every request to /, /styles and /health leave  *)
(* the used-proof set and the receipt store as they were; the used-proof   *)
(* set changes only by a gate acceptance, which adds to it, and the        *)
(* receipt store changes only with a 200 answer of a verification.         *)
(***************************************************************************)
FreeRoutes == {"root", "styles", "health"}

StoresUnchanged == payments' = payments /\ receipts' = receipts

C21_RejectedAndFreeChangeNothing ==
    [][/\ RequiredStep => StoresUnchanged
       /\ \A s \in Slots :
             (GateAt(s) /\ ~slots'[s].isValid) => StoresUnchanged
       /\ \A s \in Slots :
             (AnswerAt(s) /\ resp'.status = 402) => StoresUnchanged
       /\ (FreeStep /\ resp'.route \in FreeRoutes) => StoresUnchanged
       /\ payments' # payments
             => /\ \E s \in Slots : GateAt(s) /\ slots'[s].isValid
                /\ DOMAIN payments \subseteq DOMAIN payments'
                /\ DOMAIN payments' # DOMAIN payments
                /\ \A t \in DOMAIN payments : payments'[t] = payments[t]
       /\ receipts' # receipts
             => /\ \E s \in Slots : AnswerAt(s) /\ slots[s].isValid
                /\ resp'.route \in Endpoints
                /\ resp'.status = 200]_vars

\* with TxA used and a receipt stored, a replay was rejected at the gate and
\* /styles was requested
C21_Witness ==
    /\ resp.route = "styles"
    /\ TxA \in DOMAIN payments
    /\ receipts # EmptyMap
    /\ \E s \in Slots : /\ slots[s].pc = "awaiting"
                        /\ ~slots[s].isValid
                        /\ txHashOf(slots[s].header) = TxA

====
